---- MODULE Spec2Model ----
(***************************************************************************)
(* Model of the search engine NV_chess_engine_V2 (minimax with alpha-beta, *)
(* PVS, quiescence, killer/history ordering, iterative deepening) and of   *)
(* static_eval.evaluate_board, over the python-chess board interface.      *)
(*                                                                         *)
(* The board is the 8x8 board of python-chess (A1 = 0 .. H8 = 63).  The    *)
(* positions explored carry no castling rights and no pawn on its starting *)
(* rank, so castling and double steps never arise; a board may be set up   *)
(* with an en passant square, as chess.Board(fen) does.                    *)
(***************************************************************************)
EXTENDS Integers, Sequences, FiniteSets, TLC

(* ---------------------------------------------------------------------- *)
(* python-chess values used by the sources                                 *)
(* ---------------------------------------------------------------------- *)
WHITE == TRUE
BLACK == FALSE

PAWN   == "P"
KNIGHT == "N"
BISHOP == "B"
ROOK   == "R"
QUEEN  == "Q"
KING   == "K"

None == "None"

SQUARES == 0 .. 63

square_file(s) == s % 8
square_rank(s) == s \div 8
Sq(f, r) == r * 8 + f

Piece(t, c) == [piece_type |-> t, color |-> c]

Move(f, t, pr) == [from_square |-> f, to_square |-> t, promotion |-> pr]

\* The value None where a square is expected (board.ep_square).
NoSquare == -1

\* The value None where a move is expected (killer slots, best_move).
NoMove == Move(-1, -1, None)

Max2(a, b) == IF a >= b THEN a ELSE b
Min2(a, b) == IF a <= b THEN a ELSE b

MaxOf(S) == CHOOSE x \in S : \A y \in S : y <= x

SquaresDesc == [i \in 1 .. 64 |-> 64 - i]

\* The elements of a set of squares, highest first (scan_reversed).
SeqDesc(S) == SelectSeq(SquaresDesc, LAMBDA s : s \in S)

RECURSIVE Flatten(_)
Flatten(ss) == IF ss = <<>> THEN <<>> ELSE Head(ss) \o Flatten(Tail(ss))

Range(s) == {s[i] : i \in DOMAIN s}

(* ---------------------------------------------------------------------- *)
(* Board: piece placement (a function on the occupied squares), side to    *)
(* move, and the stack of (move, saved state) that push/pop maintain.      *)
(* ---------------------------------------------------------------------- *)
OccupiedCo(p, c) == {s \in DOMAIN p : p[s].color = c}
PiecesOf(p, t, c) == {s \in DOMAIN p : p[s].piece_type = t /\ p[s].color = c}

OnBoard(f, r) == f \in 0 .. 7 /\ r \in 0 .. 7

KnightDeltas == {<<1, 2>>, <<2, 1>>, <<2, -1>>, <<1, -2>>,
                 <<-1, -2>>, <<-2, -1>>, <<-2, 1>>, <<-1, 2>>}
KingDeltas == {<<1, 0>>, <<1, 1>>, <<0, 1>>, <<-1, 1>>,
               <<-1, 0>>, <<-1, -1>>, <<0, -1>>, <<1, -1>>}
RookDirs == {<<1, 0>>, <<0, 1>>, <<-1, 0>>, <<0, -1>>}
BishopDirs == {<<1, 1>>, <<-1, 1>>, <<-1, -1>>, <<1, -1>>}

\* The squares one step of deltas away from s.
StepTargets(s, deltas) ==
    {Sq(square_file(s) + d[1], square_rank(s) + d[2]) :
        d \in {e \in deltas : OnBoard(square_file(s) + e[1], square_rank(s) + e[2])}}

\* Whether the squares strictly between (f, r) and k steps along d are empty.
RayClear(p, f, r, d, k) ==
    \A j \in 1 .. (k - 1) : Sq(f + j * d[1], r + j * d[2]) \notin DOMAIN p

\* Squares a slider on s reaches along dirs: up to and including the first
\* occupied square.
RayTargets(p, s, dirs) ==
    {Sq(square_file(s) + x[2] * x[1][1], square_rank(s) + x[2] * x[1][2]) :
        x \in {y \in dirs \X (1 .. 7) :
                 /\ OnBoard(square_file(s) + y[2] * y[1][1],
                            square_rank(s) + y[2] * y[1][2])
                 /\ RayClear(p, square_file(s), square_rank(s), y[1], y[2])}}

PawnDeltas(c) == IF c = WHITE THEN {<<-1, 1>>, <<1, 1>>} ELSE {<<-1, -1>>, <<1, -1>>}

PawnAttacks(s, c) == StepTargets(s, PawnDeltas(c))

\* The steps of a pawn, knight or king, and the directions of a slider.
Deltas(pc) ==
    CASE pc.piece_type = PAWN   -> PawnDeltas(pc.color)
      [] pc.piece_type = KNIGHT -> KnightDeltas
      [] pc.piece_type = KING   -> KingDeltas
      [] pc.piece_type = ROOK   -> RookDirs
      [] pc.piece_type = BISHOP -> BishopDirs
      [] pc.piece_type = QUEEN  -> RookDirs \cup BishopDirs

\* board.attacks(s): the squares the piece on s attacks.
Attacks(p, s) ==
    IF p[s].piece_type \in {ROOK, BISHOP, QUEEN}
    THEN RayTargets(p, s, Deltas(p[s]))
    ELSE StepTargets(s, Deltas(p[s]))

is_attacked_by(p, c, sq) == \E s \in OccupiedCo(p, c) : sq \in Attacks(p, s)

\* board.king(c): the king's square, or -1 for None.
king(p, c) == IF PiecesOf(p, KING, c) = {} THEN -1 ELSE MaxOf(PiecesOf(p, KING, c))

\* The pawn an en passant capture removes: a pawn that moves to another
\* file onto an empty square takes the pawn beside it.
EpVictim(p, m) ==
    IF /\ p[m.from_square].piece_type = PAWN
       /\ m.to_square \notin DOMAIN p
       /\ square_file(m.from_square) # square_file(m.to_square)
    THEN {Sq(square_file(m.to_square), square_rank(m.from_square))}
    ELSE {}

\* The placement after a move (captures replace, pawns promote, en passant
\* removes the pawn passed).
ApplyMove(p, m) ==
    [s \in (DOMAIN p \ ({m.from_square} \cup EpVictim(p, m))) \cup {m.to_square} |->
        IF s = m.to_square
        THEN IF m.promotion = None THEN p[m.from_square]
             ELSE Piece(m.promotion, p[m.from_square].color)
        ELSE p[s]]

\* Whether the king of side turn is on the board and attacked.
is_check_at(p, turn) ==
    \E k \in PiecesOf(p, KING, turn) : is_attacked_by(p, ~turn, k)

\* A move is safe when it does not leave the mover's king attacked.
IsSafe(p, turn, m) == ~is_check_at(ApplyMove(p, m), turn)

Promotions == <<QUEEN, ROOK, BISHOP, KNIGHT>>

PawnMovesTo(f, t) ==
    IF square_rank(t) \in {0, 7}
    THEN [i \in 1 .. 4 |-> Move(f, t, Promotions[i])]
    ELSE <<Move(f, t, None)>>

\* The moves from f to the squares of the sequence ts.
MovesFromTo(f, ts) == [j \in DOMAIN ts |-> Move(f, ts[j], None)]

\* The moves onto t from the squares of the sequence fs.
MovesToFrom(t, fs) == [j \in DOMAIN fs |-> Move(fs[j], t, None)]

\* The pawn moves from f to the squares of the sequence ts.
PawnMovesFromTo(f, ts) == Flatten([j \in DOMAIN ts |-> PawnMovesTo(f, ts[j])])

\* Moves of the pieces on the from-squares of the sequence fs (no pawns), each
\* piece's targets highest first.
PieceMovesFrom(p, turn, fs) ==
    Flatten([i \in DOMAIN fs |->
                MovesFromTo(fs[i], SeqDesc(Attacks(p, fs[i]) \ OccupiedCo(p, turn)))])

PawnCapturesFrom(p, turn, fs) ==
    Flatten([i \in DOMAIN fs |->
                PawnMovesFromTo(fs[i],
                    SeqDesc(PawnAttacks(fs[i], turn) \cap OccupiedCo(p, ~turn)))])

PawnCaptureMoves(p, turn) == PawnCapturesFrom(p, turn, SeqDesc(PiecesOf(p, PAWN, turn)))

\* Single pushes onto the free squares of the sequence tos, step ranks ahead.
PawnPushesTo(tos, step) ==
    Flatten([i \in DOMAIN tos |-> PawnMovesTo(tos[i] - step, tos[i])])

PawnPushTargets(p, turn, step) ==
    {s + step : s \in {x \in PiecesOf(p, PAWN, turn) :
                          x + step \in SQUARES /\ x + step \notin DOMAIN p}}

PawnPushMoves(p, turn) ==
    IF turn = WHITE THEN PawnPushesTo(SeqDesc(PawnPushTargets(p, turn, 8)), 8)
    ELSE PawnPushesTo(SeqDesc(PawnPushTargets(p, turn, -8)), -8)

\* The from-squares of the pieces of side turn that are not pawns, highest
\* first, those in the set first before the others.
PieceFroms(p, turn, first) ==
    SeqDesc(first)
      \o SeqDesc({s \in OccupiedCo(p, turn) : p[s].piece_type # PAWN} \ first)

\* The candidate moves in generation order: pieces, pawn captures, pawn
\* pushes; the king's moves first when it is in check.
generate_pseudo_legal_moves(p, turn) ==
    PieceMovesFrom(p, turn,
        PieceFroms(p, turn, IF is_check_at(p, turn) THEN PiecesOf(p, KING, turn) ELSE {}))
      \o PawnCaptureMoves(p, turn) \o PawnPushMoves(p, turn)

\* board.legal_moves in generation order, for the side turn.
generate_legal_moves(p, turn) ==
    SelectSeq(generate_pseudo_legal_moves(p, turn), LAMBDA m : IsSafe(p, turn, m))


(* ---------------------------------------------------------------------- *)
(* Terminal-state predicates of the board                                  *)
(* ---------------------------------------------------------------------- *)
is_check(p, turn) == is_check_at(p, turn)

is_checkmate(p, turn) ==
    is_check(p, turn) /\ generate_legal_moves(p, turn) = <<>>

is_stalemate(p, turn) ==
    ~is_check(p, turn) /\ generate_legal_moves(p, turn) = <<>>

LightSquares == {s \in SQUARES : (square_file(s) + square_rank(s)) % 2 = 1}

has_insufficient_material(p, c) ==
    LET own == OccupiedCo(p, c)
        typ(T) == {s \in DOMAIN p : p[s].piece_type \in T}
    IN IF own \cap typ({PAWN, ROOK, QUEEN}) # {} THEN FALSE
       ELSE IF own \cap typ({KNIGHT}) # {}
       THEN Cardinality(own) <= 2
              /\ (OccupiedCo(p, ~c) \ typ({KING, QUEEN})) = {}
       ELSE IF own \cap typ({BISHOP}) # {}
       THEN /\ (typ({BISHOP}) \subseteq LightSquares
                  \/ typ({BISHOP}) \cap LightSquares = {})
            /\ typ({PAWN}) = {}
            /\ typ({KNIGHT}) = {}
       ELSE TRUE

is_insufficient_material(p) ==
    has_insufficient_material(p, WHITE) /\ has_insufficient_material(p, BLACK)

is_capture(p, turn, m) == m.to_square \in OccupiedCo(p, ~turn)

(* ---------------------------------------------------------------------- *)
(* static_eval.py                                                          *)
(* ---------------------------------------------------------------------- *)
PIECE_VALUES(t) ==
    CASE t = PAWN   -> 100
      [] t = KNIGHT -> 320
      [] t = BISHOP -> 330
      [] t = ROOK   -> 500
      [] t = QUEEN  -> 900
      [] t = KING   -> 0

PAWN_TABLE ==
    <<   0,   0,   0,   0,   0,   0,   0,   0,
        50,  50,  50,  50,  50,  50,  50,  50,
        10,  10,  20,  30,  30,  20,  10,  10,
         5,   5,  10,  25,  25,  10,   5,   5,
         0,   0,   0,  20,  20,   0,   0,   0,
         5,  -5, -10,   0,   0, -10,  -5,   5,
         5,  10,  10, -20, -20,  10,  10,   5,
         0,   0,   0,   0,   0,   0,   0,   0 >>

KNIGHT_TABLE ==
    << -50, -40, -30, -30, -30, -30, -40, -50,
       -40, -20,   0,   0,   0,   0, -20, -40,
       -30,   0,  10,  15,  15,  10,   0, -30,
       -30,   5,  15,  20,  20,  15,   5, -30,
       -30,   0,  15,  20,  20,  15,   0, -30,
       -30,   5,  10,  15,  15,  10,   5, -30,
       -40, -20,   0,   5,   5,   0, -20, -40,
       -50, -40, -30, -30, -30, -30, -40, -50 >>

BISHOP_TABLE ==
    << -20, -10, -10, -10, -10, -10, -10, -20,
       -10,   0,   0,   0,   0,   0,   0, -10,
       -10,   0,   5,  10,  10,   5,   0, -10,
       -10,   5,   5,  10,  10,   5,   5, -10,
       -10,   0,  10,  10,  10,  10,   0, -10,
       -10,  10,  10,  10,  10,  10,  10, -10,
       -10,   5,   0,   0,   0,   0,   5, -10,
       -20, -10, -10, -10, -10, -10, -10, -20 >>

ROOK_TABLE ==
    <<   0,   0,   0,   0,   0,   0,   0,   0,
         5,  10,  10,  10,  10,  10,  10,   5,
        -5,   0,   0,   0,   0,   0,   0,  -5,
        -5,   0,   0,   0,   0,   0,   0,  -5,
        -5,   0,   0,   0,   0,   0,   0,  -5,
        -5,   0,   0,   0,   0,   0,   0,  -5,
        -5,   0,   0,   0,   0,   0,   0,  -5,
         0,   0,   0,   5,   5,   0,   0,   0 >>

QUEEN_TABLE ==
    << -20, -10, -10,  -5,  -5, -10, -10, -20,
       -10,   0,   0,   0,   0,   0,   0, -10,
       -10,   0,   5,   5,   5,   5,   0, -10,
        -5,   0,   5,   5,   5,   5,   0,  -5,
         0,   0,   5,   5,   5,   5,   0,  -5,
       -10,   5,   5,   5,   5,   5,   0, -10,
       -10,   0,   5,   0,   0,   0,   0, -10,
       -20, -10, -10,  -5,  -5, -10, -10, -20 >>

KING_TABLE_MIDDLE ==
    << -30, -40, -40, -50, -50, -40, -40, -30,
       -30, -40, -40, -50, -50, -40, -40, -30,
       -30, -40, -40, -50, -50, -40, -40, -30,
       -30, -40, -40, -50, -50, -40, -40, -30,
       -20, -30, -30, -40, -40, -30, -30, -20,
       -10, -20, -20, -20, -20, -20, -20, -10,
        20,  20,   0,   0,   0,   0,  20,  20,
        20,  30,  10,   0,   0,  10,  30,  20 >>

KING_TABLE_END ==
    << -50, -40, -30, -20, -20, -30, -40, -50,
       -30, -20, -10,   0,   0, -10, -20, -30,
       -30, -10,  20,  30,  30,  20, -10, -30,
       -30, -10,  30,  40,  40,  30, -10, -30,
       -30, -10,  30,  40,  40,  30, -10, -30,
       -30, -10,  20,  30,  30,  20, -10, -30,
       -30, -30,   0,   0,   0,   0, -30, -30,
       -50, -30, -30, -30, -30, -30, -30, -50 >>

\* table[i] of the table flipped for black pieces.
_flip_table(table, i) == table[(63 - i) + 1]

_is_endgame(p) ==
    LET queens == Cardinality(PiecesOf(p, QUEEN, WHITE)) + Cardinality(PiecesOf(p, QUEEN, BLACK))
        rooks == Cardinality(PiecesOf(p, ROOK, WHITE)) + Cardinality(PiecesOf(p, ROOK, BLACK))
    IN queens = 0 /\ rooks <= 2

_get_piece_square_value(piece, square, is_endgame) ==
    LET t == piece.piece_type
        table == CASE t = PAWN   -> PAWN_TABLE
                   [] t = KNIGHT -> KNIGHT_TABLE
                   [] t = BISHOP -> BISHOP_TABLE
                   [] t = ROOK   -> ROOK_TABLE
                   [] t = QUEEN  -> QUEEN_TABLE
                   [] t = KING   -> IF is_endgame THEN KING_TABLE_END ELSE KING_TABLE_MIDDLE
    IN IF piece.color = BLACK THEN _flip_table(table, square) ELSE table[square + 1]

RECURSIVE SumOver(_, _)
\* The sum of f[x] over the set S.
SumOver(S, f) ==
    IF S = {} THEN 0
    ELSE LET x == CHOOSE y \in S : TRUE IN f[x] + SumOver(S \ {x}, f)

_evaluate_material(p) ==
    SumOver({PAWN, KNIGHT, BISHOP, ROOK, QUEEN},
            [t \in {PAWN, KNIGHT, BISHOP, ROOK, QUEEN} |->
                (Cardinality(PiecesOf(p, t, WHITE)) - Cardinality(PiecesOf(p, t, BLACK)))
                    * PIECE_VALUES(t)])

_evaluate_position(p, is_endgame) ==
    SumOver(DOMAIN p, [s \in DOMAIN p |-> _get_piece_square_value(p[s], s, is_endgame)])

\* (white_moves - black_moves) * 2.  legal is list(board.legal_moves) for the
\* side to move at the call, which the code counts as white_moves;
\* black_moves is counted after board.turn = BLACK.
_evaluate_mobility(p, legal) ==
    LET white_moves == Len(legal)
        black_moves == Len(generate_legal_moves(p, BLACK))
    IN (white_moves - black_moves) * 2

\* board.turn when _evaluate_mobility returns ("Reset to original turn").
MobilityTurnAfter(turn) == WHITE

_evaluate_pawn_structure(p) ==
    LET pawnsOn(f, c) == {s \in PiecesOf(p, PAWN, c) : square_file(s) = f}
        doubled == SumOver(0 .. 7, [f \in 0 .. 7 |->
            (IF Cardinality(pawnsOn(f, WHITE)) > 1
                THEN -20 * (Cardinality(pawnsOn(f, WHITE)) - 1) ELSE 0)
            + (IF Cardinality(pawnsOn(f, BLACK)) > 1
                THEN 20 * (Cardinality(pawnsOn(f, BLACK)) - 1) ELSE 0)])
        pawns == {s \in DOMAIN p : p[s].piece_type = PAWN}
        is_isolated(s) ==
            \A adj \in {square_file(s) - 1, square_file(s) + 1} :
                (0 <= adj /\ adj < 8) => pawnsOn(adj, p[s].color) = {}
        isolated == SumOver(pawns, [s \in pawns |->
            IF is_isolated(s) THEN (IF p[s].color = WHITE THEN -15 ELSE 15) ELSE 0])
    IN doubled + isolated

\* `if white_king_sq:` is false for None and for square 0 (A1).
_evaluate_king_safety(p, turn) ==
    LET white_king_sq == king(p, WHITE)
        black_king_sq == king(p, BLACK)
        G1 == 6  C1 == 2  G8 == 62  C8 == 58
        w == IF white_king_sq # -1 /\ white_king_sq # 0
             THEN (IF white_king_sq \in {G1, C1} THEN 20 ELSE 0)
                  + (IF is_check(p, turn) THEN -10 ELSE 0)
             ELSE 0
        b == IF black_king_sq # -1 /\ black_king_sq # 0
             THEN (IF black_king_sq \in {G8, C8} THEN -20 ELSE 0)
                  + (IF is_check(p, turn) THEN 10 ELSE 0)
             ELSE 0
    IN w + b

\* static_eval.evaluate_board without its is_insufficient_material test.
static_evaluate_board_material(p, turn) ==
    LET legal == generate_legal_moves(p, turn)
        checkmate == is_check(p, turn) /\ legal = <<>>
        stalemate == ~is_check(p, turn) /\ legal = <<>>
    IN IF checkmate
       THEN [score |-> IF turn = WHITE THEN -99999 ELSE 99999, turn |-> turn]
       ELSE IF stalemate
       THEN [score |-> 0, turn |-> turn]
       ELSE [score |-> _evaluate_material(p)
                        + _evaluate_position(p, _is_endgame(p))
                        + _evaluate_mobility(p, legal)
                        + _evaluate_pawn_structure(p)
                        + _evaluate_king_safety(p, MobilityTurnAfter(turn)),
             turn  |-> MobilityTurnAfter(turn)]

\* static_eval.evaluate_board on the board with placement p and side to move
\* turn: the score it returns, from white's perspective, and board.turn when
\* it returns.  legal is the legal-move list behind is_checkmate,
\* is_stalemate and the mobility count, all taken for the turn at the call.
static_evaluate_board(p, turn) ==
    LET legal == generate_legal_moves(p, turn)
        checkmate == is_check(p, turn) /\ legal = <<>>
        stalemate == ~is_check(p, turn) /\ legal = <<>>
    IN IF checkmate
       THEN [score |-> IF turn = WHITE THEN -99999 ELSE 99999, turn |-> turn]
       ELSE IF stalemate \/ is_insufficient_material(p)
       THEN [score |-> 0, turn |-> turn]
       ELSE [score |-> _evaluate_material(p)
                        + _evaluate_position(p, _is_endgame(p))
                        + _evaluate_mobility(p, legal)
                        + _evaluate_pawn_structure(p)
                        + _evaluate_king_safety(p, MobilityTurnAfter(turn)),
             turn  |-> MobilityTurnAfter(turn)]

\* evaluate_board without the change of sign for Black: the score from
\* White's side whatever player_color is.
evaluate_board_unsigned(b, player_color) ==
    LET e == static_evaluate_board(b.pieces, b.turn)
    IN [score |-> e.score,
        board |-> [b EXCEPT !.turn = e.turn]]

\* NV_chess_engine_V2.evaluate_board(player_color) on board b: the score for
\* player_color and the board the call leaves behind.
evaluate_board(b, player_color) ==
    LET e == static_evaluate_board(b.pieces, b.turn)
    IN [score |-> IF player_color = BLACK THEN -e.score ELSE e.score,
        board |-> [b EXCEPT !.turn = e.turn]]


(* ---------------------------------------------------------------------- *)
(* Board objects: push / pop                                               *)
(* ---------------------------------------------------------------------- *)
\* board.ep_square after the move m: the square a pawn's double step passes
\* over, None after any other move.
EpSquareAfter(p, m) ==
    IF /\ p[m.from_square].piece_type = PAWN
       /\ square_file(m.from_square) = square_file(m.to_square)
       /\ (m.to_square - m.from_square) \in {16, -16}
    THEN (m.from_square + m.to_square) \div 2
    ELSE NoSquare

\* board.push(m): remember the state, make the move, pass the turn.
BoardPush(b, m) ==
    [pieces |-> ApplyMove(b.pieces, m),
     turn   |-> ~b.turn,
     ep_square |-> EpSquareAfter(b.pieces, m),
     stack  |-> Append(b.stack, [move |-> m, pieces |-> b.pieces, turn |-> b.turn,
                                 ep_square |-> b.ep_square])]

\* A pop that restores the placement and the stack but leaves board.turn as
\* it finds it.
BoardPopKeepTurn(b) ==
    LET top == b.stack[Len(b.stack)] IN
    [pieces |-> top.pieces,
     turn   |-> b.turn,
     ep_square |-> top.ep_square,
     stack  |-> SubSeq(b.stack, 1, Len(b.stack) - 1)]

\* board.pop(): restore the state remembered by the matching push.
BoardPop(b) ==
    LET top == b.stack[Len(b.stack)] IN
    [pieces |-> top.pieces,
     turn   |-> top.turn,
     ep_square |-> top.ep_square,
     stack  |-> SubSeq(b.stack, 1, Len(b.stack) - 1)]

\* board.is_en_passant(m): a pawn moves diagonally onto the empty en passant
\* square.
is_en_passant(b, m) ==
    /\ b.ep_square # NoSquare
    /\ m.to_square = b.ep_square
    /\ m.from_square \in PiecesOf(b.pieces, PAWN, b.turn)
    /\ b.ep_square \in PawnAttacks(m.from_square, b.turn)
    /\ m.to_square \notin DOMAIN b.pieces

\* The legal en passant captures, by from-square descending.
EpMoves(b) ==
    IF b.ep_square = NoSquare \/ b.ep_square \in DOMAIN b.pieces THEN <<>>
    ELSE SelectSeq(
            MovesToFrom(b.ep_square,
                SeqDesc({s \in PiecesOf(b.pieces, PAWN, b.turn) :
                            b.ep_square \in PawnAttacks(s, b.turn)})),
            LAMBDA m : IsSafe(b.pieces, b.turn, m))

\* list(board.legal_moves): en passant captures are generated last.  The
\* terminal tests and the evaluation are applied to boards that carry no en
\* passant square.
legal_moves(b) == generate_legal_moves(b.pieces, b.turn) \o EpMoves(b)

\* board.is_capture(m): the target holds an opposing piece, or the move is
\* an en passant capture.
board_is_capture(b, m) == is_capture(b.pieces, b.turn, m) \/ is_en_passant(b, m)

(* ---------------------------------------------------------------------- *)
(* NV_chess_engine_V2: move ordering and heuristic tables                  *)
(* ---------------------------------------------------------------------- *)
\* float('inf'): larger than every score the evaluation can return.
Inf == 1000000

HistoryGet(h, m) ==
    IF <<m.from_square, m.to_square>> \in DOMAIN h
    THEN h[<<m.from_square, m.to_square>>] ELSE 0

CenterSquares == {28, 36, 27, 35}

move_score(b, killers, history, m) ==
    LET p == b.pieces
        capture == IF board_is_capture(b, m) /\ m.to_square \in DOMAIN p
                   THEN 10000 + PIECE_VALUES(p[m.to_square].piece_type)
                        - (IF m.from_square \in DOMAIN p
                           THEN PIECE_VALUES(p[m.from_square].piece_type) ELSE 0)
                   ELSE 0
        promo == IF m.promotion # None THEN 8000 ELSE 0
        killer == IF m \in Range(killers) THEN 3000 ELSE 0
        hist == IF <<m.from_square, m.to_square>> \in DOMAIN history
                THEN history[<<m.from_square, m.to_square>>] \div 10 ELSE 0
        center == IF m.to_square \in CenterSquares THEN 10 ELSE 0
    IN capture + promo + killer + hist + center

\* sorted(s, key, reverse=True): stable, highest key first.  key is the
\* sequence of the keys of s; an element's place is one more than the number
\* of elements that go before it.
SortedDesc(s, key) ==
    LET n == Len(s)
        place == [i \in 1 .. n |->
                    1 + Cardinality({j \in 1 .. n :
                            key[j] > key[i] \/ (key[j] = key[i] /\ j < i)})] \o <<>>
    IN [k \in 1 .. n |-> s[CHOOSE i \in 1 .. n : place[i] = k]] \o <<>>

\* The list of moves is built once and each move is scored once, as sorted()
\* does with its key function.
_order_moves(b, killers, history, moves) ==
    CHOOSE out \in UNION {
        {SortedDesc(ms, key) :
            key \in {[i \in DOMAIN ms |->
                        move_score(b, killers, history, ms[i])] \o <<>>}} :
        ms \in {moves}} : TRUE

\* An _update_killer that moves a move it already holds to the front.
_update_killer_to_front(killers, m) ==
    LET ins == <<m>> \o SelectSeq(killers, LAMBDA k : k # m)
    IN IF Len(ins) > 2 THEN SubSeq(ins, 1, Len(ins) - 1) ELSE ins

\* An _update_killer that records nothing.
_update_killer_skip(killers, m) == killers

\* _update_killer without its `move not in self.killer_moves` test.
_update_killer_untested(killers, m) ==
    LET ins == <<m>> \o killers
    IN IF Len(ins) > 2 THEN SubSeq(ins, 1, Len(ins) - 1) ELSE ins

_update_killer(killers, m) ==
    IF m \notin Range(killers)
    THEN LET ins == <<m>> \o killers
         IN IF Len(ins) > 2 THEN SubSeq(ins, 1, Len(ins) - 1) ELSE ins
    ELSE killers

\* _update_history with bonus = depth in place of depth * depth.
_update_history_linear(history, m, depth) ==
    LET key == <<m.from_square, m.to_square>>
        bonus == depth
    IN [k \in DOMAIN history \cup {key} |->
          IF k = key THEN HistoryGet(history, m) + bonus ELSE history[k]]

_update_history(history, m, depth) ==
    LET key == <<m.from_square, m.to_square>>
        bonus == depth * depth
    IN [k \in DOMAIN history \cup {key} |->
          IF k = key THEN HistoryGet(history, m) + bonus ELSE history[k]]

\* The moves _quiescence pushes, in order: the legal captures of the side
\* board.turn names that are not skipped as "clearly bad".
QuiescenceMoves(b) ==
    LET p == b.pieces
        ms == legal_moves(b)
        keep(m) ==
            /\ board_is_capture(b, m)
            /\ ~(/\ m.to_square \in DOMAIN p
                 /\ m.from_square \in DOMAIN p
                 /\ PIECE_VALUES(p[m.to_square].piece_type)
                      < PIECE_VALUES(p[m.from_square].piece_type))
    IN SelectSeq(ms, keep)


(* ---------------------------------------------------------------------- *)
(* Bounds of the exploration                                               *)
(* ---------------------------------------------------------------------- *)
\* Largest depth a caller passes to get_best_move.
MaxDepth == 3
\* Number of get_best_move calls a caller makes on one engine instance.
MaxCalls == 2
\* Frames below depth 0 after which the interpreter raises RecursionError.
RecursionLimit == 2
\* Plies a caller plays from a starting position before it evaluates.
MaxPlies == 2
\* Consecutive evaluate_board calls a caller makes on one position.
MaxEvals == 2
\* Cutoffs recorded in the killer and history tables before moves are ordered.
MaxCutoffs == 3

(* ---------------------------------------------------------------------- *)
(* State                                                                   *)
(* ---------------------------------------------------------------------- *)
VARIABLES
    board,          \* the chess.Board shared by caller and engine
    killer_moves,   \* self.killer_moves
    history_table,  \* self.history_table
    nodes_searched, \* self.nodes_searched
    frames,         \* the call stack: get_best_move, _search_move, minimax, _quiescence
    ret,            \* the value (or exception) a callee hands to its caller
    caller,         \* the calling program: its fixed arguments and call count
    result,         \* what the last get_best_move call gave its caller
    root_report     \* what the last completed _search_move found at the root

vars == <<board, killer_moves, history_table, nodes_searched, frames, ret,
          caller, result, root_report>>

NoRet == [kind |-> "none", val |-> 0]
\* A returned score, and a returned move (_search_move returns a move).
Value(v) == [kind |-> "value", val |-> v]
Moved(m) == [kind |-> "value", move |-> m]
Raised == [kind |-> "raise", val |-> 0]

Top == frames[Len(frames)]
Below == SubSeq(frames, 1, Len(frames) - 1)
Running(fn, pc) == frames # <<>> /\ Top.fn = fn /\ Top.pc = pc

\* Python's x + 1 and x - 1 on a float('inf') bound leave it unchanged.
Succ(x) == IF x = Inf \/ x = -Inf THEN x ELSE x + 1
Pred(x) == IF x = Inf \/ x = -Inf THEN x ELSE x - 1

is_game_over(b) ==
    \/ is_checkmate(b.pieces, b.turn)
    \/ is_stalemate(b.pieces, b.turn)
    \/ is_insufficient_material(b.pieces)


(* ---------------------------------------------------------------------- *)
(* Positions the callers start from (A1 = 0, H8 = 63)                      *)
(* ---------------------------------------------------------------------- *)
Place(sqs, t, c) == [s \in sqs |-> Piece(t, c)]

\* White Kh1; Black Kh3, pawns f2 g3.  Black mates by g2, f1=Q or f1=R.
PosMateBlack ==
    Place({7}, KING, WHITE) @@ Place({23}, KING, BLACK) @@ Place({13, 22}, PAWN, BLACK)

\* Black Kh8; White Kh6, pawns f7 g6.  White mates by g7, f8=Q or f8=R.
PosMateWhite ==
    Place({63}, KING, BLACK) @@ Place({47}, KING, WHITE) @@ Place({53, 46}, PAWN, WHITE)

\* White Kg1, pawn d4; Black Kg8, pawn e5: either pawn can take the other.
PosExchange ==
    Place({6}, KING, WHITE) @@ Place({27}, PAWN, WHITE)
    @@ Place({62}, KING, BLACK) @@ Place({36}, PAWN, BLACK)

\* White Kh1, pawn a6; Black Ka7: Kxa6 leaves bare kings.
PosBarePawn ==
    Place({7}, KING, WHITE) @@ Place({40}, PAWN, WHITE) @@ Place({48}, KING, BLACK)

\* White Kh1; Black Kg3, Ra8.  Ra1 mates at once; Re8 mates a move later
\* (Kg1 is forced, then Re1).
PosRookMate ==
    Place({7}, KING, WHITE) @@ Place({22}, KING, BLACK) @@ Place({56}, ROOK, BLACK)

NewBoard(p, turn) == [pieces |-> p, turn |-> turn, ep_square |-> NoSquare,
                      stack |-> <<>>]

InitialBoards ==
    {NewBoard(PosMateBlack, BLACK), NewBoard(PosMateWhite, WHITE),
     NewBoard(PosExchange, WHITE), NewBoard(PosExchange, BLACK),
     NewBoard(PosBarePawn, BLACK), NewBoard(PosBarePawn, WHITE),
     NewBoard(PosRookMate, BLACK)}

(* ---------------------------------------------------------------------- *)
(* Callers.  "direct" is a program that calls get_best_move itself, as the  *)
(* loops of test_engine.py and chess_pygame_viewer.py do, here for the     *)
(* side to move, and pushes the move it gets; "wrapper" is                 *)
(* ChessEngine.make_engine_move.                                           *)
(* ---------------------------------------------------------------------- *)
NoResult == [kind |-> "none", move |-> NoMove]
NoReport == [depth |-> -1]

Init ==
    /\ board \in InitialBoards
    /\ killer_moves = <<NoMove, NoMove>>
    /\ history_table = <<>>
    /\ nodes_searched = 0
    /\ frames = <<>>
    /\ ret = NoRet
    /\ \E mode \in {"direct", "wrapper"}, d \in 0 .. MaxDepth, id \in BOOLEAN :
          /\ mode = "wrapper" => (id /\ d >= 1)
          /\ caller = [mode |-> mode, depth |-> d, iterative_deepening |-> id,
                       calls |-> 0, pushed |-> TRUE]
    /\ result = NoResult
    /\ root_report = NoReport

GbmFrame(d, color, id) ==
    [fn |-> "get_best_move", pc |-> "loop", depth |-> d, player_color |-> color,
     iterative_deepening |-> id, best_move |-> NoMove, current_depth |-> 1,
     board0 |-> board, started |-> 0, completed |-> <<>>, failed |-> 0]

\* board.push(engine.get_best_move(depth, ...)) up to the call.
CallGetBestMove ==
    /\ frames = <<>>
    /\ caller.mode = "direct"
    /\ caller.pushed
    /\ caller.calls < MaxCalls
    /\ ~is_game_over(board)
    /\ frames' = <<GbmFrame(caller.depth, board.turn, caller.iterative_deepening)>>
    /\ caller' = [caller EXCEPT !.calls = @ + 1, !.pushed = FALSE]
    /\ result' = NoResult
    /\ UNCHANGED <<board, killer_moves, history_table, nodes_searched, ret, root_report>>

\* ChessEngine.make_engine_move up to its get_best_move call.
make_engine_move ==
    /\ frames = <<>>
    /\ caller.mode = "wrapper"
    /\ caller.pushed
    /\ caller.calls < MaxCalls
    /\ ~is_game_over(board)
    /\ killer_moves' = <<NoMove, NoMove>>
    /\ history_table' = <<>>
    /\ nodes_searched' = 0
    /\ frames' = <<GbmFrame(caller.depth, BLACK, TRUE)>>
    /\ caller' = [caller EXCEPT !.calls = @ + 1, !.pushed = FALSE]
    /\ result' = NoResult
    /\ UNCHANGED <<board, ret, root_report>>

\* Both callers push the move they were given (make_engine_move: if best_move).
PushBestMove ==
    /\ frames = <<>>
    /\ ~caller.pushed
    /\ result.kind = "move"
    /\ result.move # NoMove
    /\ result.failed = 0
    /\ board' = BoardPush(board, result.move)
    /\ caller' = [caller EXCEPT !.pushed = TRUE]
    /\ UNCHANGED <<killer_moves, history_table, nodes_searched, frames, ret, result,
                   root_report>>

(* ---------------------------------------------------------------------- *)
(* get_best_move                                                           *)
(* ---------------------------------------------------------------------- *)
SearchMoveFrame(d, color) ==
    [fn |-> "_search_move", pc |-> "enter", depth |-> d, player_color |-> color,
     best_move |-> NoMove, alpha |-> -Inf, beta |-> Inf, moves |-> <<>>, i |-> 1]

\* What the caller is given when get_best_move returns best.
Returned(f, best) ==
    [kind |-> "move", move |-> best, depth |-> f.depth,
     player_color |-> f.player_color,
     iterative_deepening |-> f.iterative_deepening,
     board0 |-> f.board0, started |-> f.started, completed |-> f.completed,
     failed |-> f.failed]

\* The for loop over current_depth (or the single call without deepening).
GetBestMoveLoop ==
    /\ Running("get_best_move", "loop")
    /\ ret = NoRet
    /\ LET f == Top IN
       IF f.iterative_deepening
       THEN IF f.current_depth <= f.depth
            THEN /\ frames' = Append(Below, [f EXCEPT !.pc = "wait", !.started = @ + 1])
                                \o <<SearchMoveFrame(f.current_depth, f.player_color)>>
                 /\ UNCHANGED result
            ELSE /\ frames' = <<>>
                 /\ result' = Returned(f, f.best_move)
       ELSE /\ frames' = Append(Below, [f EXCEPT !.pc = "wait", !.started = @ + 1])
                           \o <<SearchMoveFrame(f.depth, f.player_color)>>
            /\ UNCHANGED result
    /\ UNCHANGED <<board, killer_moves, history_table, nodes_searched, ret, caller,
                   root_report>>

\* A deepening loop that keeps the first move it was given instead of
\* overwriting best_move with each iteration's.
GetBestMoveAfterSearchKeepFirst ==
    /\ Running("get_best_move", "wait")
    /\ ret.kind = "value"
    /\ LET f == Top
           kept == IF f.best_move # NoMove THEN f.best_move ELSE ret.move
           g == [f EXCEPT !.best_move = kept,
                          !.completed = Append(@, ret.move),
                          !.current_depth = @ + 1]
       IN IF f.iterative_deepening
          THEN /\ frames' = Append(Below, [g EXCEPT !.pc = "loop"])
               /\ UNCHANGED result
          ELSE /\ frames' = <<>>
               /\ result' = Returned(g, kept)
    /\ ret' = NoRet
    /\ UNCHANGED <<board, killer_moves, history_table, nodes_searched, caller,
                   root_report>>

\* best_move = self._search_move(...) has returned.
GetBestMoveAfterSearch ==
    /\ Running("get_best_move", "wait")
    /\ ret.kind = "value"
    /\ LET f == Top
           g == [f EXCEPT !.best_move = ret.move,
                          !.completed = Append(@, ret.move),
                          !.current_depth = @ + 1]
       IN IF f.iterative_deepening
          THEN /\ frames' = Append(Below, [g EXCEPT !.pc = "loop"])
               /\ UNCHANGED result
          ELSE /\ frames' = <<>>
               /\ result' = Returned(g, ret.move)
    /\ ret' = NoRet
    /\ UNCHANGED <<board, killer_moves, history_table, nodes_searched, caller,
                   root_report>>

\* An except clause that goes on to the next depth instead of `break`.
GetBestMoveExceptContinue ==
    /\ Running("get_best_move", "wait")
    /\ ret.kind = "raise"
    /\ Top.iterative_deepening
    /\ frames' = <<[Top EXCEPT !.pc = "loop", !.failed = Top.current_depth,
                               !.current_depth = @ + 1]>>
    /\ ret' = NoRet
    /\ UNCHANGED <<board, killer_moves, history_table, nodes_searched, caller, result,
                   root_report>>

\* except Exception: break -- and the return of the last known best move.
GetBestMoveExcept ==
    /\ Running("get_best_move", "wait")
    /\ ret.kind = "raise"
    /\ Top.iterative_deepening
    /\ frames' = <<>>
    /\ result' = Returned([Top EXCEPT !.failed = Top.current_depth], Top.best_move)
    /\ ret' = NoRet
    /\ UNCHANGED <<board, killer_moves, history_table, nodes_searched, caller,
                   root_report>>

\* Without deepening there is no handler: the exception reaches the caller.
GetBestMovePropagate ==
    /\ Running("get_best_move", "wait")
    /\ ret.kind = "raise"
    /\ ~Top.iterative_deepening
    /\ frames' = <<>>
    /\ result' = [Returned([Top EXCEPT !.failed = Top.started], NoMove)
                      EXCEPT !.kind = "raised"]
    /\ ret' = NoRet
    /\ UNCHANGED <<board, killer_moves, history_table, nodes_searched, caller,
                   root_report>>


(* ---------------------------------------------------------------------- *)
(* _search_move                                                            *)
(* ---------------------------------------------------------------------- *)
\* A minimax call that is handed its caller's depth instead of depth - 1.
MinimaxFrameSameDepth(d, is_max, alpha, beta) ==
    [fn |-> "minimax", pc |-> "enter", depth |-> d + 1, is_maximizing_player |-> is_max,
     alpha |-> alpha, beta |-> beta, moves |-> <<>>, i |-> 1,
     is_first_move |-> TRUE, best |-> IF is_max THEN -Inf ELSE Inf]

MinimaxFrame(d, is_max, alpha, beta) ==
    [fn |-> "minimax", pc |-> "enter", depth |-> d, is_maximizing_player |-> is_max,
     alpha |-> alpha, beta |-> beta, moves |-> <<>>, i |-> 1,
     is_first_move |-> TRUE, best |-> IF is_max THEN -Inf ELSE Inf]

QuiescenceFrame(alpha, beta) ==
    [fn |-> "_quiescence", pc |-> "enter", alpha |-> alpha, beta |-> beta,
     moves |-> <<>>, i |-> 1]

\* The value of `best_move if best_move else list(legal_moves)[0] if
\* legal_moves else None`.
SearchMoveResult(best, b) ==
    IF best # NoMove THEN best
    ELSE IF legal_moves(b) # <<>> THEN legal_moves(b)[1] ELSE NoMove

RootReport(f, b) ==
    [depth |-> f.depth, player_color |-> f.player_color, moves |-> f.moves,
     best_move |-> f.best_move,
     score |-> IF f.player_color = BLACK THEN f.alpha ELSE f.beta,
     move |-> SearchMoveResult(f.best_move, b), board |-> b]

\* moves = self._order_moves(list(self.board.legal_moves), ...)
SearchMoveEnter ==
    /\ Running("_search_move", "enter")
    /\ LET f == Top
           ms == _order_moves(board, killer_moves, history_table, legal_moves(board))
       IN IF ms = <<>>
          THEN /\ frames' = Below
               /\ ret' = Moved(SearchMoveResult(NoMove, board))
               /\ root_report' = RootReport(f, board)
          ELSE /\ frames' = Append(Below, [f EXCEPT !.moves = ms, !.pc = "loop"])
               /\ UNCHANGED <<ret, root_report>>
    /\ UNCHANGED <<board, killer_moves, history_table, nodes_searched, caller, result>>

\* self.board.push(move); score = self.minimax(depth - 1, ..., alpha, beta)
SearchMoveLoop ==
    /\ Running("_search_move", "loop")
    /\ LET f == Top IN
       /\ board' = BoardPush(board, f.moves[f.i])
       /\ frames' = Append(Below, [f EXCEPT !.pc = "wait"])
                      \o <<MinimaxFrame(f.depth - 1, f.player_color # BLACK,
                                        f.alpha, f.beta)>>
    /\ UNCHANGED <<killer_moves, history_table, nodes_searched, ret, caller, result,
                   root_report>>

\* self.board.pop(); the strict improvement test; the return after the loop.
SearchMoveAfter ==
    /\ Running("_search_move", "wait")
    /\ ret.kind = "value"
    /\ LET f == Top
           score == ret.val
           move == f.moves[f.i]
           b == BoardPop(board)
           g == IF f.player_color = BLACK
                THEN IF score > f.alpha
                     THEN [f EXCEPT !.alpha = score, !.best_move = move] ELSE f
                ELSE IF score < f.beta
                     THEN [f EXCEPT !.beta = score, !.best_move = move] ELSE f
       IN /\ board' = b
          /\ IF f.i < Len(f.moves)
             THEN /\ frames' = Append(Below, [g EXCEPT !.i = @ + 1, !.pc = "loop"])
                  /\ ret' = NoRet
                  /\ UNCHANGED root_report
             ELSE /\ frames' = Below
                  /\ ret' = Moved(SearchMoveResult(g.best_move, b))
                  /\ root_report' = RootReport(g, b)
    /\ UNCHANGED <<killer_moves, history_table, nodes_searched, caller, result>>

(* ---------------------------------------------------------------------- *)
(* minimax                                                                 *)
(* ---------------------------------------------------------------------- *)
\* The body of minimax down to the move loop.  At depth 0 the frame becomes
\* the _quiescence call whose value minimax returns unchanged.
MinimaxEnter ==
    /\ Running("minimax", "enter")
    /\ nodes_searched' = nodes_searched + 1
    /\ LET f == Top
           p == board.pieces
           ms == _order_moves(board, killer_moves, history_table, legal_moves(board))
       IN IF f.depth = 0
          THEN /\ frames' = Append(Below, QuiescenceFrame(f.alpha, f.beta))
               /\ UNCHANGED <<ret, board>>
          ELSE IF is_checkmate(p, board.turn)
          THEN /\ frames' = Below
               /\ ret' = Value(IF f.is_maximizing_player THEN -99999 ELSE 99999)
               /\ UNCHANGED board
          ELSE IF is_stalemate(p, board.turn) \/ is_insufficient_material(p)
          THEN /\ frames' = Below
               /\ ret' = Value(0)
               /\ UNCHANGED board
          ELSE IF ms = <<>>
          THEN /\ frames' = Below
               /\ ret' = Value(evaluate_board(board, BLACK).score)
               /\ board' = evaluate_board(board, BLACK).board
          ELSE /\ frames' = Append(Below, [f EXCEPT !.moves = ms, !.pc = "loop"])
               /\ UNCHANGED <<ret, board>>
    /\ UNCHANGED <<killer_moves, history_table, caller, result, root_report>>

\* A move loop without null windows: every move gets the full window.
ChildWindowFull(f) == <<f.alpha, f.beta>>

\* The window of the search of the next move: full for the first move, null
\* for the others.
ChildWindow(f) ==
    IF f.is_first_move THEN <<f.alpha, f.beta>>
    ELSE IF f.is_maximizing_player THEN <<f.alpha, Succ(f.alpha)>>
    ELSE <<Pred(f.beta), f.beta>>

\* self.board.push(move) and the first search of the move.  Below depth 0
\* the descent has no floor and ends in RecursionError.
MinimaxLoop ==
    /\ Running("minimax", "loop")
    /\ ~(Top.depth < 0 /\ -Top.depth >= RecursionLimit)
    /\ LET f == Top
           w == ChildWindow(f)
       IN /\ board' = BoardPush(board, f.moves[f.i])
          /\ frames' = Append(Below, [f EXCEPT !.pc = IF f.is_first_move THEN "first"
                                                       ELSE "probe",
                                               !.is_first_move = FALSE])
                         \o <<MinimaxFrame(f.depth - 1, ~f.is_maximizing_player,
                                           w[1], w[2])>>
    /\ UNCHANGED <<killer_moves, history_table, nodes_searched, ret, caller, result,
                   root_report>>

\* RecursionError unwinds every frame up to get_best_move.
MinimaxRecursionError ==
    /\ Running("minimax", "loop")
    /\ Top.depth < 0 /\ -Top.depth >= RecursionLimit
    /\ frames' = <<frames[1]>>
    /\ ret' = Raised
    /\ UNCHANGED <<board, killer_moves, history_table, nodes_searched, caller, result,
                   root_report>>

\* if alpha < eval < beta: eval = self.minimax(depth - 1, ..., alpha, beta)
MinimaxResearch ==
    /\ Running("minimax", "probe")
    /\ ret.kind = "value"
    /\ Top.alpha < ret.val /\ ret.val < Top.beta
    /\ LET f == Top IN
       frames' = Append(Below, [f EXCEPT !.pc = "research"])
                   \o <<MinimaxFrame(f.depth - 1, ~f.is_maximizing_player,
                                     f.alpha, f.beta)>>
    /\ ret' = NoRet
    /\ UNCHANGED <<board, killer_moves, history_table, nodes_searched, caller, result,
                   root_report>>

\* self.board.pop(), the running best, the window, the cutoff bookkeeping,
\* and the return when the loop ends.
MinimaxAfter ==
    /\ frames # <<>> /\ Top.fn = "minimax" /\ Top.pc \in {"first", "probe", "research"}
    /\ ret.kind = "value"
    /\ ~(Top.pc = "probe" /\ Top.alpha < ret.val /\ ret.val < Top.beta)
    /\ LET f == Top
           eval == ret.val
           move == f.moves[f.i]
           g == IF f.is_maximizing_player
                THEN [f EXCEPT !.best = Max2(@, eval), !.alpha = Max2(@, eval)]
                ELSE [f EXCEPT !.best = Min2(@, eval), !.beta = Min2(@, eval)]
       IN /\ board' = BoardPop(board)
          /\ IF g.beta <= g.alpha
             THEN /\ killer_moves' = _update_killer(killer_moves, move)
                  /\ history_table' = _update_history(history_table, move, f.depth)
                  /\ frames' = Below
                  /\ ret' = Value(g.best)
             ELSE IF f.i < Len(f.moves)
             THEN /\ frames' = Append(Below, [g EXCEPT !.i = @ + 1, !.pc = "loop"])
                  /\ ret' = NoRet
                  /\ UNCHANGED <<killer_moves, history_table>>
             ELSE /\ frames' = Below
                  /\ ret' = Value(g.best)
                  /\ UNCHANGED <<killer_moves, history_table>>
    /\ UNCHANGED <<nodes_searched, caller, result, root_report>>

(* ---------------------------------------------------------------------- *)
(* _quiescence                                                             *)
(* ---------------------------------------------------------------------- *)
\* A fail-soft entry of _quiescence: on stand_pat >= beta it returns stand_pat
\* in place of beta.
QuiescenceEnterFailSoft ==
    /\ Running("_quiescence", "enter")
    /\ nodes_searched' = nodes_searched + 1
    /\ \E e \in {evaluate_board(board, BLACK)} :
       LET f == Top
           stand_pat == e.score
           b == e.board
           alpha == Max2(f.alpha, stand_pat)
           ms == QuiescenceMoves(b)
       IN /\ board' = b
          /\ IF stand_pat >= f.beta
             THEN /\ frames' = Below
                  /\ ret' = Value(stand_pat)
             ELSE IF ms = <<>>
             THEN /\ frames' = Below
                  /\ ret' = Value(alpha)
             ELSE /\ frames' = Append(Below, [f EXCEPT !.alpha = alpha, !.moves = ms,
                                                       !.pc = "loop"])
                  /\ UNCHANGED ret
    /\ UNCHANGED <<killer_moves, history_table, caller, result, root_report>>

\* The stand-pat evaluation, its beta cutoff, and the captures to search.
QuiescenceEnter ==
    /\ Running("_quiescence", "enter")
    /\ nodes_searched' = nodes_searched + 1
    /\ \E e \in {evaluate_board(board, BLACK)} :
       LET f == Top
           stand_pat == e.score
           b == e.board
           alpha == Max2(f.alpha, stand_pat)
           ms == QuiescenceMoves(b)
       IN /\ board' = b
          /\ IF stand_pat >= f.beta
             THEN /\ frames' = Below
                  /\ ret' = Value(f.beta)
             ELSE IF ms = <<>>
             THEN /\ frames' = Below
                  /\ ret' = Value(alpha)
             ELSE /\ frames' = Append(Below, [f EXCEPT !.alpha = alpha, !.moves = ms,
                                                       !.pc = "loop"])
                  /\ UNCHANGED ret
    /\ UNCHANGED <<killer_moves, history_table, caller, result, root_report>>

\* self.board.push(move); score = -self._quiescence(-beta, -alpha)
QuiescenceLoop ==
    /\ Running("_quiescence", "loop")
    /\ LET f == Top IN
       /\ board' = BoardPush(board, f.moves[f.i])
       /\ frames' = Append(Below, [f EXCEPT !.pc = "wait"])
                      \o <<QuiescenceFrame(-f.beta, -f.alpha)>>
    /\ UNCHANGED <<killer_moves, history_table, nodes_searched, ret, caller, result,
                   root_report>>

\* self.board.pop(); alpha = max(alpha, score); the cutoff; the final return.
QuiescenceAfter ==
    /\ Running("_quiescence", "wait")
    /\ ret.kind = "value"
    /\ LET f == Top
           score == -ret.val
           alpha == Max2(f.alpha, score)
       IN /\ board' = BoardPop(board)
          /\ IF alpha >= f.beta
             THEN /\ frames' = Below
                  /\ ret' = Value(f.beta)
             ELSE IF f.i < Len(f.moves)
             THEN /\ frames' = Append(Below, [f EXCEPT !.alpha = alpha, !.i = @ + 1,
                                                       !.pc = "loop"])
                  /\ ret' = NoRet
             ELSE /\ frames' = Below
                  /\ ret' = Value(alpha)
    /\ UNCHANGED <<killer_moves, history_table, nodes_searched, caller, result,
                   root_report>>

(* ---------------------------------------------------------------------- *)
(* Specifications                                                          *)
(* ---------------------------------------------------------------------- *)
Next ==
    \/ CallGetBestMove
    \/ make_engine_move
    \/ PushBestMove
    \/ GetBestMoveLoop
    \/ GetBestMoveAfterSearch
    \/ GetBestMovePropagate
    \/ SearchMoveEnter
    \/ SearchMoveLoop
    \/ SearchMoveAfter
    \/ MinimaxEnter
    \/ MinimaxLoop
    \/ MinimaxRecursionError
    \/ MinimaxResearch
    \/ MinimaxAfter
    \/ QuiescenceEnter
    \/ QuiescenceLoop
    \/ QuiescenceAfter

\* The engine driven by its two callers.  Under iterative deepening no call of
\* this code raises, so the except clause of get_best_move never runs here.
Spec == Init /\ [][Next]_vars

(* ---------------------------------------------------------------------- *)
(* A root search that fails                                                *)
(* ---------------------------------------------------------------------- *)
\* An exception raised somewhere below get_best_move (the except clause names
\* a time-out as its cause): the frames of _search_move, minimax and
\* _quiescence unwind without running any further statement of theirs.
SearchRaises ==
    /\ Len(frames) >= 2
    /\ ret = NoRet
    /\ frames' = <<frames[1]>>
    /\ ret' = Raised
    /\ UNCHANGED <<board, killer_moves, history_table, nodes_searched, caller, result,
                   root_report>>

\* The positions the failing searches start from.
FailBoards == {NewBoard(PosExchange, BLACK), NewBoard(PosMateWhite, WHITE)}

InitFail == Init /\ board \in FailBoards

NextFail == Next \/ SearchRaises \/ GetBestMoveExcept

SpecFail == InitFail /\ [][NextFail]_vars


(* ---------------------------------------------------------------------- *)
(* A caller that evaluates positions                                       *)
(* ---------------------------------------------------------------------- *)
\* White Kh1; Black Kh3, Ra8.  Ra1 mates, Rg8 stalemates.
PosRookStale ==
    Place({7}, KING, WHITE) @@ Place({23}, KING, BLACK) @@ Place({56}, ROOK, BLACK)

\* The positions the evaluating caller starts from.
EvalBoards == InitialBoards \cup {NewBoard(PosRookStale, BLACK)}

InitEval ==
    /\ board \in EvalBoards
    /\ killer_moves = <<NoMove, NoMove>>
    /\ history_table = <<>>
    /\ nodes_searched = 0
    /\ frames = <<>>
    /\ ret = NoRet
    /\ caller = [mode |-> "eval", depth |-> 0, iterative_deepening |-> FALSE,
                 calls |-> 0, pushed |-> TRUE]
    /\ result = NoResult
    /\ root_report = NoReport

\* The caller plays a legal move on a position it has not evaluated yet.
EvalPlay ==
    /\ caller.mode = "eval"
    /\ result = NoResult
    /\ Len(board.stack) < MaxPlies
    /\ \E m \in Range(legal_moves(board)) : board' = BoardPush(board, m)
    /\ UNCHANGED <<killer_moves, history_table, nodes_searched, frames, ret, caller,
                   result, root_report>>

\* What the caller keeps of one engine.evaluate_board(player_color) call: the
\* score, the board before the call, and the call before it on this position.
Evaluated(e, color, before, last) ==
    [kind |-> "score", move |-> NoMove, score |-> e.score, player_color |-> color,
     before |-> before,
     n |-> IF last.kind = "score" THEN last.n + 1 ELSE 1,
     last_score |-> IF last.kind = "score" THEN last.score ELSE 0,
     last_color |-> IF last.kind = "score" THEN last.player_color ELSE color]

\* engine.evaluate_board(player_color), with nothing between it and the call
\* before it.
CallEvaluateBoard ==
    /\ caller.mode = "eval"
    /\ result.kind = "score" => result.n < MaxEvals
    /\ \E color \in BOOLEAN :
          /\ result' = Evaluated(evaluate_board(board, color), color, board, result)
          /\ board' = evaluate_board(board, color).board
    /\ UNCHANGED <<killer_moves, history_table, nodes_searched, frames, ret, caller,
                   root_report>>

NextEval == EvalPlay \/ CallEvaluateBoard

SpecEval == InitEval /\ [][NextEval]_vars

\* C4 -- evaluate is side-effect-free: when evaluate_board has returned, the
\* board (placement, side to move, move stack) is the board it was given.
C4_EvaluateLeavesBoard ==
    result.kind = "score" => board = result.before

\* C5 -- evaluate is deterministic: the second of two consecutive
\* evaluate_board calls on the same board with the same perspective returns
\* the score the first returned.
C5_EvaluateDeterministic ==
    (result.kind = "score" /\ result.n >= 2 /\ result.last_color = result.player_color)
        => result.score = result.last_score

(* ---------------------------------------------------------------------- *)
(* Reference: unpruned full-width search                                   *)
(* ---------------------------------------------------------------------- *)
MaxSeq(s) == CHOOSE x \in Range(s) : \A y \in Range(s) : y <= x
MinSeq(s) == CHOOSE x \in Range(s) : \A y \in Range(s) : x <= y

RECURSIVE QuiescenceFull(_)
\* The value of _quiescence on board b with the unbounded window: every
\* capture it would push is searched, none is cut off.
QuiescenceFull(b) ==
    LET e == evaluate_board(b, BLACK)
        stand_pat == e.score
        b2 == e.board
        ms == QuiescenceMoves(b2)
    IN MaxSeq(<<stand_pat>> \o [i \in DOMAIN ms |-> -QuiescenceFull(BoardPush(b2, ms[i]))])

RECURSIVE MinimaxFull(_, _, _)
\* Plain minimax of depth d on board b: the terminal tests of minimax, every
\* legal move searched once on the board as push leaves it, no window.
MinimaxFull(b, d, is_max) ==
    IF d = 0 THEN QuiescenceFull(b)
    ELSE IF is_checkmate(b.pieces, b.turn) THEN (IF is_max THEN -99999 ELSE 99999)
    ELSE IF is_stalemate(b.pieces, b.turn) \/ is_insufficient_material(b.pieces) THEN 0
    ELSE LET ms == legal_moves(b)
             vals == [i \in DOMAIN ms |-> MinimaxFull(BoardPush(b, ms[i]), d - 1, ~is_max)]
         IN IF is_max THEN MaxSeq(vals) ELSE MinSeq(vals)

\* The full-width scores of the root moves, in the order the root search
\* tried them.
RootScoresFull(r) ==
    [i \in DOMAIN r.moves |->
        MinimaxFull(BoardPush(r.board, r.moves[i]), r.depth - 1, r.player_color # BLACK)]

RootBestFull(r) ==
    LET vals == RootScoresFull(r)
        best == IF r.player_color = BLACK THEN MaxSeq(vals) ELSE MinSeq(vals)
        first == CHOOSE i \in DOMAIN vals :
                    vals[i] = best /\ \A j \in 1 .. (i - 1) : vals[j] # best
    IN [move |-> r.moves[first], score |-> best]

\* A root search has just handed its move to get_best_move.
SearchMoveReturned ==
    /\ Running("get_best_move", "wait")
    /\ ret.kind = "value"

\* C1 -- pruning equivalence: the move and score of every completed root
\* search of depth >= 1 are those of the unpruned full-width search of the
\* same root moves with the same leaf evaluation.
C1_PruningEquivalence ==
    (SearchMoveReturned /\ root_report.depth >= 1 /\ root_report.moves # <<>>)
        => /\ root_report.move = RootBestFull(root_report).move
           /\ root_report.score = RootBestFull(root_report).score

(* ---------------------------------------------------------------------- *)
(* Properties of get_best_move                                             *)
(* ---------------------------------------------------------------------- *)
\* get_best_move has returned to its caller, which has not pushed yet.
GetBestMoveReturned == frames = <<>> /\ result.kind = "move" /\ ~caller.pushed

\* A frame between its board.push and the matching board.pop.
HoldsPush(f) ==
    \/ f.fn = "_search_move" /\ f.pc = "wait"
    \/ f.fn = "minimax" /\ f.pc \in {"first", "probe", "research"}
    \/ f.fn = "_quiescence" /\ f.pc = "wait"

\* C2 -- when get_best_move returns normally at depth >= 1 the board is the
\* board at call time (placement, side to move, move stack), and throughout
\* such a search the moves on the stack above the call-time stack are exactly
\* those of the frames that have pushed and not yet popped.
C2_PositionRestored ==
    /\ (GetBestMoveReturned /\ result.depth >= 1) => board = result.board0
    /\ (frames # <<>> /\ frames[1].depth >= 1) =>
          Len(board.stack) = Len(frames[1].board0.stack)
                               + Cardinality({i \in DOMAIN frames : HoldsPush(frames[i])})

\* A search of depth >= 2 that recorded a cutoff has returned.
C2_Witness ==
    /\ GetBestMoveReturned
    /\ result.depth >= 2
    /\ killer_moves[1] # NoMove
    /\ board = result.board0

\* C3 -- on a position that is not terminal get_best_move returns a move for
\* every depth >= 0 and either value of iterative_deepening: it neither
\* returns None nor raises.
C3_ReturnsMove ==
    (frames = <<>> /\ result.kind # "none" /\ ~caller.pushed)
        => (result.kind = "move" /\ result.move # NoMove)

MatesNow(b, m) == is_checkmate(ApplyMove(b.pieces, m), ~b.turn)

HasMateInOne(r) == \E i \in DOMAIN r.moves : MatesNow(r.board, r.moves[i])

\* C6 -- when the side to move, which the search plays for, has a move that
\* checkmates at once, the root search at depth >= 1 returns a move that
\* checkmates at once, with score +99999 for Black and -99999 for White.
C6_MateInOne ==
    (/\ SearchMoveReturned
     /\ root_report.depth >= 1
     /\ root_report.player_color = root_report.board.turn
     /\ HasMateInOne(root_report))
        => /\ MatesNow(root_report.board, root_report.move)
           /\ root_report.score = IF root_report.player_color = BLACK
                                  THEN 99999 ELSE -99999

\* get_best_move has been entered and has not started a root search.
GetBestMoveEntered ==
    /\ Len(frames) = 1
    /\ Top.fn = "get_best_move"
    /\ Top.started = 0

\* C7 -- at the start of every get_best_move call the killer table is
\* [None, None], the history table is empty and the node counter is 0.
C7_ContextReset ==
    GetBestMoveEntered =>
        /\ killer_moves = <<NoMove, NoMove>>
        /\ history_table = <<>>
        /\ nodes_searched = 0

\* C8 -- under iterative deepening, when the root search of depth k raises,
\* get_best_move returns (the exception does not reach the caller), depth
\* k is the last depth started, and the move returned is the one the
\* completed search of depth k - 1 returned (None when k = 1).
C8_FailedIteration ==
    /\ (frames = <<>> /\ result.kind = "raised") => ~result.iterative_deepening
    /\ (frames = <<>> /\ result.kind = "move" /\ result.failed >= 1) =>
          /\ result.started = result.failed
          /\ Len(result.completed) = result.failed - 1
          /\ result.move = IF result.failed = 1 THEN NoMove
                           ELSE result.completed[result.failed - 1]

\* The search of depth 2 failed with moves still pushed, below the depth asked.
C8_Witness ==
    /\ frames = <<>>
    /\ result.kind = "move"
    /\ result.failed = 2
    /\ result.depth > 2
    /\ result.move # NoMove
    /\ Len(board.stack) > Len(result.board0.stack)

\* C9 -- the killer table holds at most 2 entries and no move twice.
C9_KillerTable ==
    /\ Len(killer_moves) <= 2
    /\ \A i, j \in DOMAIN killer_moves :
          (i # j /\ killer_moves[i] = killer_moves[j]) => killer_moves[i] = NoMove

\* Two cutoffs by different moves have filled both slots.
C9_Witness ==
    /\ Len(killer_moves) = 2
    /\ killer_moves[1] # NoMove
    /\ killer_moves[2] # NoMove

\* Whether the move just searched by minimax frame f, with value eval, ends
\* the loop of f by beta <= alpha.
CutsOff(f, eval) ==
    IF f.is_maximizing_player THEN f.beta <= Max2(f.alpha, eval)
    ELSE Min2(f.beta, eval) <= f.alpha

\* The step in which minimax pops a move whose value gives beta <= alpha.
CutoffStep ==
    /\ frames # <<>> /\ Top.fn = "minimax" /\ Top.pc \in {"first", "probe", "research"}
    /\ ret.kind = "value"
    /\ ~(Top.pc = "probe" /\ Top.alpha < ret.val /\ ret.val < Top.beta)
    /\ CutsOff(Top, ret.val)
    /\ frames' = Below

\* C10 -- within a get_best_move run no history entry decreases or
\* disappears; the table changes only in a minimax cutoff step, and that
\* step raises the entry of the cutting move by exactly depth * depth and
\* leaves every other entry alone.
C10_HistoryTable ==
    [][frames # <<>> =>
        LET m == Top.moves[Top.i]
            key == <<m.from_square, m.to_square>>
        IN /\ \A k \in DOMAIN history_table :
                 k \in DOMAIN history_table' /\ history_table'[k] >= history_table[k]
           /\ history_table' # history_table => CutoffStep
           /\ CutoffStep =>
                 /\ DOMAIN history_table' = DOMAIN history_table \cup {key}
                 /\ history_table'[key] = HistoryGet(history_table, m) + Top.depth * Top.depth
                 /\ \A k \in DOMAIN history_table \ {key} :
                       history_table'[k] = history_table[k]]_vars

\* During a run an entry stands above the largest single bonus: it has been
\* raised more than once.
C10_Witness ==
    /\ frames # <<>>
    /\ \E k \in DOMAIN history_table :
          history_table[k] > (MaxDepth - 1) * (MaxDepth - 1)

(* ---------------------------------------------------------------------- *)
(* Properties of _quiescence                                               *)
(* ---------------------------------------------------------------------- *)
\* The window the frame c has handed to the call it is waiting for.
CalleeWindow(c) ==
    IF c.fn = "_quiescence" THEN <<-c.beta, -c.alpha>>
    ELSE IF c.fn = "minimax" /\ c.pc = "probe"
    THEN (IF c.is_maximizing_player THEN <<c.alpha, Succ(c.alpha)>>
          ELSE <<Pred(c.beta), c.beta>>)
    ELSE <<c.alpha, c.beta>>

\* The step in which the _quiescence call on top of the stack returns.
QuiescenceReturns ==
    /\ Len(frames) >= 2
    /\ Top.fn = "_quiescence"
    /\ frames' = Below
    /\ ret'.kind = "value"

\* The running alpha of the returning _quiescence call: its alpha raised by
\* the stand-pat score (at entry) or by the score of the capture just undone.
QuiescenceRaisedAlpha ==
    IF Top.pc = "enter" THEN Max2(Top.alpha, evaluate_board(board, BLACK).score)
    ELSE Max2(Top.alpha, -ret.val)

\* C11 -- every _quiescence call made with alpha < beta returns a value v
\* with alpha <= v <= beta: beta when the stand-pat score or a capture's
\* score reaches beta, and otherwise the alpha it has raised so far.
C11_QuiescenceWindow ==
    [][QuiescenceReturns =>
        LET w == CalleeWindow(frames[Len(frames) - 1])
            v == ret'.val
            a == QuiescenceRaisedAlpha
        IN w[1] < w[2] =>
              /\ w[1] <= v /\ v <= w[2]
              /\ v = IF a >= w[2] THEN w[2] ELSE a]_vars

\* A capture searched by _quiescence under a bounded window has returned a
\* value strictly inside the window it was given.
C11_Witness ==
    /\ Running("_quiescence", "wait")
    /\ ret.kind = "value"
    /\ Top.alpha > -Inf /\ Top.beta < Inf
    /\ -Top.beta < ret.val /\ ret.val < -Top.alpha

(* ---------------------------------------------------------------------- *)
(* Properties of the evaluation                                            *)
(* ---------------------------------------------------------------------- *)
\* The position b is drawn as the evaluation sees it: stalemate or
\* insufficient material, and not checkmate.
IsDrawn(b) ==
    /\ ~is_checkmate(b.pieces, b.turn)
    /\ is_stalemate(b.pieces, b.turn) \/ is_insufficient_material(b.pieces)

\* C12 -- evaluate_board returns exactly 0, for either player_color, on every
\* position that is stalemate or has insufficient material and is not
\* checkmate.
C12_DrawIsZero ==
    (result.kind = "score" /\ IsDrawn(result.before)) => result.score = 0

\* A stalemate with material on the board has been evaluated for White.
C12_WitnessStalemate ==
    /\ result.kind = "score"
    /\ result.player_color = WHITE
    /\ is_stalemate(result.before.pieces, result.before.turn)
    /\ ~is_insufficient_material(result.before.pieces)
    /\ result.score = 0

\* A position of bare kings, not stalemate, has been evaluated for Black.
C12_Witness ==
    /\ result.kind = "score"
    /\ result.player_color = BLACK
    /\ IsDrawn(result.before)
    /\ ~is_stalemate(result.before.pieces, result.before.turn)
    /\ result.score = 0

(* ---------------------------------------------------------------------- *)
(* Properties of minimax                                                   *)
(* ---------------------------------------------------------------------- *)
\* The running get_best_move call searches for the side that was to move
\* when it was called.
SearchesForSideToMove ==
    /\ frames # <<>>
    /\ frames[1].player_color = frames[1].board0.turn

\* The scores of the search are Black's: the root maximizes for Black and
\* minimizes for White, and evaluate_board() defaults to Black's perspective.
MaximizingSide == BLACK

\* C13 -- in a search for the side to move, minimax at depth >= 1 on a
\* position whose side to move is checkmated returns at once -99999 when the
\* mated side is the maximizing side and +99999 when it is the minimizing
\* side; its is_maximizing_player flag names the side to move; and the value
\* is the one the depth-0 leaf (quiescence with the unbounded window, scoring
\* by evaluate_board for the maximizing side) gives for the same position.
C13_MateSentinel ==
    [][(/\ Running("minimax", "enter")
        /\ Top.depth >= 1
        /\ SearchesForSideToMove
        /\ is_checkmate(board.pieces, board.turn))
          => /\ frames' = Below
             /\ ret' = Value(IF board.turn = MaximizingSide THEN -99999 ELSE 99999)
             /\ Top.is_maximizing_player = (board.turn = MaximizingSide)
             /\ ret'.val = QuiescenceFull(board)
             /\ ret'.val = evaluate_board(board, MaximizingSide).score]_vars

\* A minimax node two plies or more above the leaves has had the sentinel
\* back from a child whose side to move is checkmated.
C13_Witness ==
    /\ SearchesForSideToMove
    /\ Top.fn = "minimax" /\ Top.pc \in {"first", "probe", "research"}
    /\ Top.depth >= 2
    /\ ret.kind = "value"
    /\ is_checkmate(board.pieces, board.turn)
    /\ ret.val = IF board.turn = BLACK THEN -99999 ELSE 99999

\* The step adds one minimax call for the move on the board, one ply nearer
\* the leaves, for the other side, with the window <<a, b>>.
CallsChild(a, b) ==
    /\ Len(frames') = Len(frames) + 1
    /\ frames'[Len(frames')] =
          MinimaxFrame(Top.depth - 1, ~Top.is_maximizing_player, a, b)

\* The null window of the minimax frame f.
NullWindow(f) ==
    IF f.is_maximizing_player THEN <<f.alpha, Succ(f.alpha)>>
    ELSE <<Pred(f.beta), f.beta>>

\* C14 -- at every minimax node of depth >= 1: the first ordered move is
\* pushed and searched with the node's window [alpha, beta]; a later move is
\* pushed and first searched with the null window, (alpha, alpha + 1) at a
\* maximizing node and (beta - 1, beta) at a minimizing one, taken from the
\* node's current alpha and beta; after the probe returns r the move is
\* searched again, on the same board and with [alpha, beta], exactly when
\* alpha < r < beta; after a first-move search or a re-search the move is
\* undone and not searched again.
C14_WindowPolicy ==
    [][(frames # <<>> /\ Top.fn = "minimax" /\ Top.depth >= 1) =>
        /\ Top.pc = "loop" =>
              /\ board' = BoardPush(board, Top.moves[Top.i])
              /\ IF Top.i = 1 THEN CallsChild(Top.alpha, Top.beta)
                 ELSE CallsChild(NullWindow(Top)[1], NullWindow(Top)[2])
        /\ (Top.pc = "probe" /\ ret.kind = "value") =>
              IF Top.alpha < ret.val /\ ret.val < Top.beta
              THEN board' = board /\ CallsChild(Top.alpha, Top.beta)
              ELSE board' = BoardPop(board) /\ Len(frames') <= Len(frames)
        /\ (Top.pc \in {"first", "research"} /\ ret.kind = "value") =>
              board' = BoardPop(board) /\ Len(frames') <= Len(frames)]_vars

\* The re-search of a later move of a node two plies above the leaves has
\* returned.
C14_Witness ==
    /\ frames # <<>>
    /\ Top.fn = "minimax"
    /\ Top.depth >= 2
    /\ Top.pc = "research"
    /\ Top.i >= 2
    /\ ret.kind = "value"

\* The step in which minimax undoes the move it has finished searching.
MinimaxPops ==
    /\ frames # <<>> /\ Top.fn = "minimax" /\ Top.pc \in {"first", "probe", "research"}
    /\ ret.kind = "value"
    /\ ~(Top.pc = "probe" /\ Top.alpha < ret.val /\ ret.val < Top.beta)

\* C15 -- when beta <= alpha holds after minimax has searched and undone a
\* move, that step leaves the move in the killer table, adds depth * depth to
\* its history entry and returns from the node, so that no further sibling is
\* made; any other step of a running search, in minimax, _quiescence or the
\* root search, leaves both tables as they are.
C15_CutoffBookkeeping ==
    [][frames # <<>> =>
        IF MinimaxPops /\ CutsOff(Top, ret.val)
        THEN LET m == Top.moves[Top.i]
                 key == <<m.from_square, m.to_square>>
             IN /\ board' = BoardPop(board)
                /\ m \in Range(killer_moves')
                /\ key \in DOMAIN history_table'
                /\ history_table'[key] = HistoryGet(history_table, m) + Top.depth * Top.depth
                /\ frames' = Below
                /\ ret'.kind = "value"
        ELSE UNCHANGED <<killer_moves, history_table>>]_vars

\* A move has just produced beta <= alpha at a node of depth >= 2 that
\* still has moves it has not tried.
C15_Witness ==
    /\ MinimaxPops
    /\ CutsOff(Top, ret.val)
    /\ Top.depth >= 2
    /\ Top.i < Len(Top.moves)

\* The side to move on the board when the _quiescence call now at its move
\* loop was entered: the side that did not make the move that led here.
QuiescenceEntryTurn == ~board.stack[Len(board.stack)].turn

\* C16 -- the move _quiescence is about to make is a capture, and a legal
\* move of the side that was to move when the call was entered; the stand-pat
\* evaluation has left that side to move.
C16_QuiescenceCaptures ==
    Running("_quiescence", "loop") =>
        LET m == Top.moves[Top.i]
            p == board.pieces
        IN /\ board.turn = QuiescenceEntryTurn
           /\ p[m.from_square].color = QuiescenceEntryTurn
           /\ is_capture(p, QuiescenceEntryTurn, m)
           /\ m \in Range(generate_legal_moves(p, QuiescenceEntryTurn))

(* ---------------------------------------------------------------------- *)
(* Properties of a failing iteration                                       *)
(* ---------------------------------------------------------------------- *)
\* C17 -- when an iteration of the deepening loop has failed below the root
\* and get_best_move has returned, the board is the board at call time:
\* every move made during the failed iteration has been undone.
C17_FailureRestoresPosition ==
    (frames = <<>> /\ result.kind = "move" /\ result.failed >= 1)
        => board = result.board0

(* ---------------------------------------------------------------------- *)
(* Properties of the evaluation terms                                      *)
(* ---------------------------------------------------------------------- *)
\* The mobility term static_eval.evaluate_board computes on board b.
MobilityTerm(b) == _evaluate_mobility(b.pieces, legal_moves(b))

\* Twice the difference of the legal-move counts of the placement p, White's
\* taken with White to move and Black's with Black to move.
MobilityDifferential(p) ==
    2 * (Len(generate_legal_moves(p, WHITE)) - Len(generate_legal_moves(p, BLACK)))

\* C18 -- on every non-terminal position evaluated, the mobility term is
\* 2 * (White's legal moves with White to move - Black's legal moves with
\* Black to move), whichever side is to move at the call.
C18_MobilityTerm ==
    (result.kind = "score" /\ ~is_game_over(result.before))
        => MobilityTerm(result.before) = MobilityDifferential(result.before.pieces)

(* ---------------------------------------------------------------------- *)
(* Move ordering on its own                                                *)
(* ---------------------------------------------------------------------- *)
\* White Kg1, pawn e5; Black Kg8, pawn d5, which has just made its double
\* step: White may take it en passant on d6 (FEN 6k1/8/8/3pP3/8/8/8/6K1 w - d6).
PosEnPassant ==
    Place({6}, KING, WHITE) @@ Place({36}, PAWN, WHITE)
    @@ Place({62}, KING, BLACK) @@ Place({35}, PAWN, BLACK)

\* The boards whose moves are ordered.
OrderBoards ==
    {NewBoard(PosExchange, BLACK), NewBoard(PosMateBlack, BLACK),
     [NewBoard(PosEnPassant, WHITE) EXCEPT !.ep_square = 43]}

InitOrder ==
    /\ board \in OrderBoards
    /\ killer_moves = <<NoMove, NoMove>>
    /\ history_table = <<>>
    /\ nodes_searched = 0
    /\ frames = <<>>
    /\ ret = NoRet
    /\ caller = [mode |-> "order", depth |-> 0, iterative_deepening |-> FALSE,
                 calls |-> 0, pushed |-> TRUE]
    /\ result = NoResult
    /\ root_report = NoReport

\* The bookkeeping of one cutoff by the move m at depth d, as minimax does it.
RecordCutoff ==
    /\ caller.mode = "order"
    /\ caller.calls < MaxCutoffs
    /\ \E m \in Range(legal_moves(board)), d \in 1 .. MaxDepth :
          /\ killer_moves' = _update_killer(killer_moves, m)
          /\ history_table' = _update_history(history_table, m, d)
    /\ caller' = [caller EXCEPT !.calls = @ + 1]
    /\ result' = NoResult
    /\ UNCHANGED <<board, nodes_searched, frames, ret, root_report>>

\* self._order_moves(list(self.board.legal_moves), ...) with the tables as
\* they stand.
CallOrderMoves ==
    /\ caller.mode = "order"
    /\ result' = [kind |-> "ordered", move |-> NoMove,
                  input |-> legal_moves(board),
                  output |-> _order_moves(board, killer_moves, history_table,
                                          legal_moves(board))]
    /\ UNCHANGED <<board, killer_moves, history_table, nodes_searched, frames, ret,
                   caller, root_report>>

NextOrder == RecordCutoff \/ CallOrderMoves

SpecOrder == InitOrder /\ [][NextOrder]_vars

\* The value of the piece the capture m takes: the piece on the target
\* square, or the pawn taken en passant.
VictimValue(b, m) ==
    IF is_en_passant(b, m) THEN PIECE_VALUES(PAWN)
    ELSE PIECE_VALUES(b.pieces[m.to_square].piece_type)

\* The ordering score of the move m as stated: 10000 + victim - attacker for
\* a capture, 8000 for a promotion, 3000 for a killer, history \div 10, and
\* 10 for a destination on d4, d5, e4 or e5.
StatedScore(b, killers, history, m) ==
    (IF board_is_capture(b, m)
     THEN 10000 + VictimValue(b, m) - PIECE_VALUES(b.pieces[m.from_square].piece_type)
     ELSE 0)
    + (IF m.promotion # None THEN 8000 ELSE 0)
    + (IF m = killers[1] \/ m = killers[2] THEN 3000 ELSE 0)
    + (HistoryGet(history, m) \div 10)
    + (IF m.to_square \in {27, 35, 28, 36} THEN 10 ELSE 0)

\* The place of the move m in the sequence s of distinct moves.
IndexIn(s, m) == CHOOSE i \in DOMAIN s : s[i] = m

\* C19 -- _order_moves returns a permutation of its input in which scores
\* never increase and moves of equal score keep their generation order, the
\* score being the stated one.
C19_OrderMoves ==
    result.kind = "ordered" =>
        LET in == result.input
            out == result.output
            sc(m) == StatedScore(board, killer_moves, history_table, m)
        IN /\ Len(out) = Len(in)
           /\ Range(out) = Range(in)
           /\ \A i, j \in DOMAIN out :
                 i < j => \/ sc(out[i]) > sc(out[j])
                          \/ /\ sc(out[i]) = sc(out[j])
                             /\ IndexIn(in, out[i]) < IndexIn(in, out[j])

(* ---------------------------------------------------------------------- *)
(* Properties of the deepening loop                                        *)
(* ---------------------------------------------------------------------- *)
\* The running call is get_best_move with iterative deepening and depth >= 1.
Deepening ==
    /\ frames # <<>>
    /\ frames[1].iterative_deepening
    /\ frames[1].depth >= 1

\* C20 -- with iterative deepening, depth D >= 1 and no failing iteration:
\* the k-th root search get_best_move starts has depth k, and k <= D; each
\* root search orders the legal root moves with the killer and history
\* tables as they stand when it starts; and get_best_move returns only after
\* D root searches, with the move the last of them, of depth D, returned.
C20_DeepeningOrder ==
    [][Deepening =>
        /\ (Running("get_best_move", "loop") /\ frames' # <<>>) =>
              /\ Top.started + 1 <= Top.depth
              /\ frames'[2] = SearchMoveFrame(Top.started + 1, Top.player_color)
              /\ Len(Top.completed) = Top.started
        /\ (Running("_search_move", "enter") /\ Len(frames') = Len(frames)) =>
              frames'[2].moves =
                  _order_moves(board, killer_moves, history_table, legal_moves(board))
        /\ frames' = <<>> =>
              /\ Top.started = Top.depth
              /\ Len(Top.completed) = Top.depth
              /\ root_report.depth = Top.depth
              /\ result'.kind = "move"
              /\ result'.move = root_report.move
              /\ result'.move = Top.completed[Top.depth]]_vars

\* A deepening call of the largest depth has returned a move that differs
\* from the move of its first iteration, with a killer move on record.
C20_Witness ==
    /\ frames = <<>>
    /\ result.kind = "move"
    /\ result.iterative_deepening
    /\ result.depth = MaxDepth
    /\ Len(result.completed) = MaxDepth
    /\ result.completed[1] # result.move
    /\ killer_moves[1] # NoMove

(* ---------------------------------------------------------------------- *)
(* Termination of get_best_move                                            *)
(* ---------------------------------------------------------------------- *)
\* A step of the running get_best_move call.  Every such step changes the
\* call stack.
EngineStep == frames # <<>> /\ Next

\* The engine runs in one thread, one statement after the other: while a call
\* is running, its next step is taken.  Nothing makes a caller call again.
SpecLive == Spec /\ WF_frames(EngineStep)

PieceCount(b) == Cardinality(DOMAIN b.pieces)

\* The running call is get_best_move with depth >= 1.
SearchingToDepth ==
    /\ frames # <<>>
    /\ frames[1].depth >= 1

\* The step calls fn: it puts a new frame of fn on top of the caller's.
Calls(fn) ==
    /\ Len(frames') = Len(frames) + 1
    /\ frames'[Len(frames')].fn = fn

\* The _quiescence frames that wait for a recursive _quiescence call, each
\* with its capture pushed on the board.
PendingCaptures ==
    Cardinality({i \in DOMAIN frames :
                    frames[i].fn = "_quiescence" /\ frames[i].pc = "wait"})

\* The board on which the outermost running _quiescence call was entered.
QuiescenceEntryPieces(k) ==
    IF k = 0 THEN board.pieces
    ELSE board.stack[Len(board.stack) - k + 1].pieces

\* C21 -- a get_best_move call with depth >= 1 terminates: every minimax
\* call made by _search_move or by minimax has depth exactly one less than
\* its caller's, and is made only from a caller of depth >= 1, so that depth
\* 0 is reached and never passed; every recursive _quiescence call follows
\* the push of a capture that leaves strictly fewer pieces on the board, so
\* the nesting of _quiescence is bounded by the number of pieces on the
\* board it was entered with; and the call returns a result to its caller.
C21_Terminates ==
    /\ [][SearchingToDepth =>
            /\ (Top.fn \in {"_search_move", "minimax"} /\ Calls("minimax")) =>
                  /\ Top.depth >= 1
                  /\ frames'[Len(frames')].depth = Top.depth - 1
            /\ (Top.fn = "_quiescence" /\ Calls("_quiescence")) =>
                  /\ board_is_capture(board, Top.moves[Top.i])
                  /\ board' = BoardPush(board, Top.moves[Top.i])
                  /\ PieceCount(board') < PieceCount(board)]_vars
    /\ [](SearchingToDepth =>
            /\ \A i \in DOMAIN frames :
                  frames[i].fn = "minimax" => frames[i].depth >= 0
            /\ PendingCaptures + PieceCount(board)
                  <= Cardinality(DOMAIN QuiescenceEntryPieces(PendingCaptures))
            /\ PendingCaptures < Cardinality(DOMAIN QuiescenceEntryPieces(PendingCaptures)))
    /\ SearchingToDepth ~> (frames = <<>> /\ result.kind = "move")

\* A search of the largest depth has come down to depth 0 and stands in a
\* recursive _quiescence call, made after a capture.
C21_Witness ==
    /\ SearchingToDepth
    /\ frames[1].depth = MaxDepth
    /\ Len(frames) >= MaxDepth + 3
    /\ PendingCaptures >= 1
    /\ Top.fn = "_quiescence"
    /\ Top.pc = "enter"

(* ---------------------------------------------------------------------- *)
(* Order of the killer table                                               *)
(* ---------------------------------------------------------------------- *)
\* C22 -- when minimax records a cutting move m: if m is in neither killer
\* slot, afterwards the table has two slots, the first holds m and the
\* second holds what the first held (what the second held is gone); if m is
\* already in a slot, the table stays as it is and m is not moved to the
\* front.
C22_KillerMostRecentFirst ==
    [][(MinimaxPops /\ CutsOff(Top, ret.val)) =>
        LET m == Top.moves[Top.i]
        IN IF m \notin Range(killer_moves)
           THEN /\ Len(killer_moves') = 2
                /\ killer_moves'[1] = m
                /\ killer_moves'[2] = killer_moves[1]
           ELSE killer_moves' = killer_moves]_vars

\* A cutoff by a move that is in neither slot while both slots hold a move:
\* the older killer is about to be dropped.
C22_Witness ==
    /\ MinimaxPops
    /\ CutsOff(Top, ret.val)
    /\ Top.moves[Top.i] \notin Range(killer_moves)
    /\ killer_moves[1] # NoMove
    /\ killer_moves[2] # NoMove
    /\ killer_moves[1] # killer_moves[2]

\* A cutoff by the move that sits in the second slot, behind another killer.
C22_WitnessHeld ==
    /\ MinimaxPops
    /\ CutsOff(Top, ret.val)
    /\ Top.moves[Top.i] = killer_moves[2]
    /\ killer_moves[1] # NoMove

====
